---- MODULE Spec2Model ----
(***************************************************************************)
(* Corners Finder (src/oddcor.py): the search action of the Streamlit      *)
(* page, its HTTP requests, and the normaliser extract_corner_rows.        *)
(*                                                                         *)
(* JSON values are tagged records: [t |-> "null"], [t |-> "str", v |-> s]  *)
(* with s a sequence of one-character strings, [t |-> "int", v |-> n],     *)
(* [t |-> "float", v |-> h] with h the value in hundredths,                *)
(* [t |-> "nan"] (a float that is not finite), [t |-> "bool", v |-> b],    *)
(* [t |-> "list", v |-> seq] and [t |-> "dict", v |-> f] with f a function *)
(* from keys (TLA+ strings) to values.  [t |-> "raise"] is the result of   *)
(* an expression that raises a Python exception.                           *)
(* The start_time column of a row (parse_dt) is not modelled.              *)
(* A local variable read more than once is the parameter of a helper.      *)
(***************************************************************************)
EXTENDS Integers, Sequences, FiniteSets, TLC

VARIABLES
    \* ---- sidebar / page inputs (src/oddcor.py:25-66)
    demo_mode, rapidapi_key, provider, endpoint_mode, preset_endpoint,
    custom_path, league_filter, team_filter, min_line,
    \* ---- position of the script and its local variables
    pc, to_probe, probe_idx, path_used, matches, match_idx, id_idx,
    all_rows,
    \* ---- what the page shows: the closing message, the "Partidos
    \* obtenidos" count (-1 while not written), the rows of the table
    message, written, shown,
    \* ---- the HTTP traffic: whether a GET was issued since the click; the
    \* call that issued the last one (probe_first_working_path, the direct
    \* GET of the search action, try_fetch_odds_by_id) and the URLs that
    \* call has requested, in order; the status of the last response and
    \* whether its body parsed as JSON
    requested, req_by, requests, last_status, last_body,
    \* ---- extract_corner_rows applied to drawn inputs
    x_match, x_block, x_result

vars == <<demo_mode, rapidapi_key, provider, endpoint_mode, preset_endpoint,
          custom_path, league_filter, team_filter, min_line, pc, to_probe,
          probe_idx, path_used, matches, match_idx, id_idx, all_rows, message,
          written, shown, requested, req_by, requests, last_status, last_body,
          x_match, x_block, x_result>>

http == <<requested, req_by, requests, last_status, last_body>>

inputs == <<demo_mode, rapidapi_key, provider, endpoint_mode, preset_endpoint,
            custom_path, league_filter, team_filter, min_line>>

-----------------------------------------------------------------------------
\* JSON / Python values

Null == [t |-> "null"]
Str(s) == [t |-> "str", v |-> s]
IntV(n) == [t |-> "int", v |-> n]
Flt(h) == [t |-> "float", v |-> h]
NaN == [t |-> "nan"]
Bool(b) == [t |-> "bool", v |-> b]
List(q) == [t |-> "list", v |-> q]
Dict(f) == [t |-> "dict", v |-> f]
Raise == [t |-> "raise"]
Absent == [t |-> "absent"]

\* The dictionary keys the code names, spelled out: a key is a TLA+ string
\* where it indexes a dict, and these characters where Python compares it
\* with a JSON string.
K == [ id |-> <<"i","d">>,
       matchId |-> <<"m","a","t","c","h","I","d">>,
       fixtureId |-> <<"f","i","x","t","u","r","e","I","d">>,
       eventId |-> <<"e","v","e","n","t","I","d">>,
       homeTeam |-> <<"h","o","m","e","T","e","a","m">>,
       home_team |-> <<"h","o","m","e","_","t","e","a","m">>,
       home |-> <<"h","o","m","e">>,
       awayTeam |-> <<"a","w","a","y","T","e","a","m">>,
       away_team |-> <<"a","w","a","y","_","t","e","a","m">>,
       away |-> <<"a","w","a","y">>,
       league |-> <<"l","e","a","g","u","e">>,
       competition |-> <<"c","o","m","p","e","t","i","t","i","o","n">>,
       tournament |-> <<"t","o","u","r","n","a","m","e","n","t">>,
       odds |-> <<"o","d","d","s">>,
       markets |-> <<"m","a","r","k","e","t","s">>,
       bookmakers |-> <<"b","o","o","k","m","a","k","e","r","s">>,
       data |-> <<"d","a","t","a">>,
       result |-> <<"r","e","s","u","l","t">>,
       matches |-> <<"m","a","t","c","h","e","s">>,
       events |-> <<"e","v","e","n","t","s">>,
       fixtures |-> <<"f","i","x","t","u","r","e","s">>,
       book |-> <<"b","o","o","k">>,
       bookmaker |-> <<"b","o","o","k","m","a","k","e","r">>,
       title |-> <<"t","i","t","l","e">>,
       name |-> <<"n","a","m","e">>,
       key |-> <<"k","e","y">>,
       market |-> <<"m","a","r","k","e","t">>,
       type |-> <<"t","y","p","e">>,
       selections |-> <<"s","e","l","e","c","t","i","o","n","s">>,
       outcomes |-> <<"o","u","t","c","o","m","e","s">>,
       bets |-> <<"b","e","t","s">>,
       options |-> <<"o","p","t","i","o","n","s">>,
       label |-> <<"l","a","b","e","l">>,
       selection |-> <<"s","e","l","e","c","t","i","o","n">>,
       outcome |-> <<"o","u","t","c","o","m","e">>,
       price |-> <<"p","r","i","c","e">>,
       decimal |-> <<"d","e","c","i","m","a","l">>,
       value |-> <<"v","a","l","u","e">>,
       coeff |-> <<"c","o","e","f","f">>,
       startTime |-> <<"s","t","a","r","t","T","i","m","e">> ]

\* the literal of has_corners
CORNER == <<"c","o","r","n","e","r">>

UpperCase == <<"A","B","C","D","E","F","G","H","I","J","K","L","M",
               "N","O","P","Q","R","S","T","U","V","W","X","Y","Z">>
LowerCase == <<"a","b","c","d","e","f","g","h","i","j","k","l","m",
               "n","o","p","q","r","s","t","u","v","w","x","y","z">>
DigitChars == <<"0","1","2","3","4","5","6","7","8","9">>

\* str.lower() of one character and of a string
LowerChar(c) ==
    IF \E i \in 1..26 : UpperCase[i] = c
    THEN LowerCase[CHOOSE i \in 1..26 : UpperCase[i] = c]
    ELSE c

LowerStr(s) == [i \in 1..Len(s) |-> LowerChar(s[i])]

\* Python's  sub in s  on two strings
IsSubstr(sub, s) ==
    \E i \in 0..(Len(s) - Len(sub)) :
        \A j \in 1..Len(sub) : s[i + j] = sub[j]

IsDigit(c) == \E i \in 1..10 : DigitChars[i] = c

DigitOf(c) == (CHOOSE i \in 1..10 : DigitChars[i] = c) - 1

RECURSIVE DigitsValue(_)
DigitsValue(ds) ==
    IF ds = <<>> THEN 0
    ELSE 10 * DigitsValue(SubSeq(ds, 1, Len(ds) - 1)) + DigitOf(ds[Len(ds)])

RECURSIVE Digits(_)
Digits(n) ==
    IF n < 10 THEN <<DigitChars[n + 1]>>
    ELSE Digits(n \div 10) \o <<DigitChars[(n % 10) + 1]>>

RECURSIVE Pow10(_)
Pow10(k) == IF k = 0 THEN 1 ELSE 10 * Pow10(k - 1)

\* bool(x)
Truthy(x) ==
    CASE x.t = "null" -> FALSE
      [] x.t = "str" -> x.v # <<>>
      [] x.t = "int" -> x.v # 0
      [] x.t = "float" -> x.v # 0
      [] x.t = "nan" -> TRUE
      [] x.t = "bool" -> x.v
      [] x.t = "list" -> x.v # <<>>
      [] x.t = "dict" -> DOMAIN x.v # {}

\* kc in src  for a list (an element equal to the string) or a str (substring)
InSeqOrStr(kc, src) ==
    IF src.t = "list" THEN \E i \in 1..Len(src.v) : src.v[i] = Str(kc)
    ELSE IsSubstr(kc, src.v)

\* k in src : Bool(..), or Raise when src is not a container
PyIn(k, src) ==
    CASE src.t = "dict" -> Bool(k \in DOMAIN src.v)
      [] src.t \in {"list", "str"} -> Bool(InSeqOrStr(K[k], src))
      [] OTHER -> Raise

\* the value of  src[k]  guarded by  k in src : Absent when k is not in src,
\* Raise when the test or the subscript raises (only a dict takes a string key)
Lookup(k, src) ==
    CASE src.t = "dict" -> IF k \in DOMAIN src.v THEN src.v[k] ELSE Absent
      [] src.t \in {"list", "str"} ->
             IF InSeqOrStr(K[k], src) THEN Raise ELSE Absent
      [] OTHER -> Raise

\* src.get(k) : AttributeError unless src is a dict
PyGet(src, k) ==
    IF src.t # "dict" THEN Raise
    ELSE IF k \in DOMAIN src.v THEN src.v[k]
    ELSE Null

-----------------------------------------------------------------------------
\* Helpers of the page (src/oddcor.py:214-233)

\* repr of a float given in hundredths: "1.9", "2.05", "2.0"
FloatRepr(h) ==
    Digits(h \div 100) \o <<".">> \o
    (IF h % 10 = 0 THEN <<DigitChars[((h % 100) \div 10) + 1]>>
     ELSE <<DigitChars[((h % 100) \div 10) + 1], DigitChars[(h % 10) + 1]>>)

\* str(x) of a JSON scalar (names are scalars in every input of this model)
to_str(x) ==
    CASE x.t = "str" -> x.v
      [] x.t = "int" -> Digits(x.v)
      [] x.t = "float" -> FloatRepr(x.v)
      [] x.t = "nan" -> <<"n","a","n">>
      [] x.t = "bool" -> IF x.v THEN <<"T","r","u","e">>
                         ELSE <<"F","a","l","s","e">>
      [] OTHER -> <<"N","o","n","e">>

\* pick_first(*keys, src=src, default=default): the first key that is in src
\* with a value other than None and "".  PickStep is one turn of its loop,
\* val being  src[k]  guarded by  k in src.
RECURSIVE pick_first(_, _, _)
RECURSIVE PickStep(_, _, _, _)
PickStep(val, keys, src, default) ==
    IF val = Raise THEN Raise
    ELSE IF val # Absent /\ val # Null /\ val # Str(<<>>) THEN val
    ELSE pick_first(Tail(keys), src, default)

pick_first(keys, src, default) ==
    IF keys = <<>> THEN default
    ELSE PickStep(Lookup(Head(keys), src), keys, src, default)

\* has_corners(text): "corner" in (text or "").lower()
has_corners(text) ==
    IF ~Truthy(text) THEN Bool(FALSE)
    ELSE IF text.t = "str" THEN Bool(IsSubstr(CORNER, LowerStr(text.v)))
    ELSE Raise

\* a or b, a and b being results of has_corners, b read only if a is false
OrElse(a, b) ==
    IF a = Raise THEN Raise
    ELSE IF a.v THEN Bool(TRUE)
    ELSE b

\* a market test that reads the market name alone
MarketNameOnly(m_name, sel_name) == has_corners(m_name)

\* has_corners(m_name) or has_corners(sel_name)
MarketTest(m_name, sel_name) ==
    OrElse(has_corners(m_name), has_corners(sel_name))

\* re.findall(r"\d+(?:\.\d+)?", s)[0]: the leftmost digit run with its
\* optional fraction, as [found, ip, fp] (digits before and after the point)
RECURSIVE DigitRun(_, _)
DigitRun(s, i) ==
    IF i <= Len(s) /\ IsDigit(s[i]) THEN <<s[i]>> \o DigitRun(s, i + 1)
    ELSE <<>>

\* the fraction after an integer part ip that starts at i
FractionAt(s, i, ip) ==
    IF i + Len(ip) <= Len(s) /\ s[i + Len(ip)] = "."
    THEN DigitRun(s, i + Len(ip) + 1)
    ELSE <<>>

\* the number that starts at i, the place of the first digit of s
NumberAt(s, i) ==
    [found |-> TRUE, ip |-> DigitRun(s, i),
     fp |-> FractionAt(s, i, DigitRun(s, i))]

FirstNumber(s) ==
    IF ~\E i \in 1..Len(s) : IsDigit(s[i])
    THEN [found |-> FALSE, ip |-> <<>>, fp |-> <<>>]
    ELSE NumberAt(s, CHOOSE a \in 1..Len(s) :
                         IsDigit(s[a]) /\ \A b \in 1..(a - 1) : ~IsDigit(s[b]))

\* a comparison that rejects the line itself:  first_num > float(min_line)
AtLeastStrict(n, minl) ==
    DigitsValue(n.ip \o n.fp) * 100 > minl * Pow10(Len(n.fp))

\* float(numbers[0]) >= float(min_line), n = numbers[0], minl in hundredths
AtLeast(n, minl) ==
    DigitsValue(n.ip \o n.fp) * 100 >= minl * Pow10(Len(n.fp))

\* pass_min for numbers = [n, ...] or [] (src/oddcor.py:277-283)
PassNumber(n, minl) == IF ~n.found THEN TRUE ELSE AtLeast(n, minl)

\* the min_line heuristic (src/oddcor.py:275-285)
PassMin(sel_name, minl) == PassNumber(FirstNumber(to_str(sel_name)), minl)

\* the price of an outcome: the first of the five keys holding an int or a
\* float (a bool is an int), as a float; None when there is none.  OddsStep
\* is one turn of the loop, val being  o[ok]  guarded by  ok in o.
RECURSIVE OddsVal(_, _)
RECURSIVE OddsStep(_, _, _)
OddsStep(val, keys, o) ==
    IF val = Raise THEN Raise
    ELSE IF val = Absent THEN OddsVal(Tail(keys), o)
    ELSE IF val.t = "int" THEN Flt(100 * val.v)
    ELSE IF val.t = "float" THEN val
    ELSE IF val.t = "nan" THEN NaN
    ELSE IF val.t = "bool" THEN Flt(IF val.v THEN 100 ELSE 0)
    ELSE OddsVal(Tail(keys), o)

OddsVal(keys, o) ==
    IF keys = <<>> THEN Null
    ELSE OddsStep(Lookup(Head(keys), o), keys, o)

\* a result of (part of) extract_corner_rows: the rows, or err when it raised
Ok(rows) == [err |-> FALSE, rows |-> rows]
Err == [err |-> TRUE, rows |-> <<>>]

\* the rows of a and then those of b; an exception in either ends both
Cat(a, b) ==
    IF a.err THEN Err
    ELSE IF b.err THEN Err
    ELSE Ok(a.rows \o b.rows)

\* rows.append({...}) (src/oddcor.py:287-297)
Row(hdr, book_name, m_name, sel_name, odds_val) ==
    [match_id |-> hdr.match_id, league |-> hdr.league, home |-> hdr.home,
     away |-> hdr.away, book |-> book_name, market |-> m_name,
     selection |-> sel_name, odds |-> odds_val]

\* the body of  for o in outs  (src/oddcor.py:264-297), given the values of
\* its locals sel_name, the market test and odds_val
OutcomeRow(sel_name, test, odds_val, hdr, book_name, m_name, minl) ==
    IF sel_name = Raise THEN Err
    ELSE IF test = Raise THEN Err
    ELSE IF ~test.v THEN Ok(<<>>)
    ELSE IF odds_val = Raise THEN Err
    ELSE IF ~PassMin(sel_name, minl) THEN Ok(<<>>)
    ELSE Ok(<< Row(hdr, book_name, m_name, sel_name, odds_val) >>)

\* sel_name of an outcome (src/oddcor.py:265)
SelName(o) ==
    pick_first(<<"name", "label", "selection", "outcome">>, o, Str(<<>>))

\* the market test of an outcome whose sel_name is known
TestOf(m_name, sel_name) ==
    IF sel_name = Raise THEN Raise ELSE MarketTest(m_name, sel_name)

OutcomeRows(o, hdr, book_name, m_name, minl) ==
    OutcomeRow(SelName(o), TestOf(m_name, SelName(o)),
               OddsVal(<<"odds", "price", "decimal", "value", "coeff">>, o),
               hdr, book_name, m_name, minl)

RECURSIVE OutsRows(_, _, _, _, _)
OutsRows(outs, hdr, book_name, m_name, minl) ==
    IF outs = <<>> THEN Ok(<<>>)
    ELSE Cat(OutcomeRows(Head(outs), hdr, book_name, m_name, minl),
             OutsRows(Tail(outs), hdr, book_name, m_name, minl))

\* outs: the first of selections/outcomes/bets/options that m.get gives as a
\* list; Raise when m has no .get
RECURSIVE MarketOuts(_, _)
MarketOuts(keys, m) ==
    IF m.t # "dict" THEN Raise
    ELSE IF keys = <<>> THEN List(<<>>)
    ELSE IF PyGet(m, Head(keys)).t = "list" THEN PyGet(m, Head(keys))
    ELSE MarketOuts(Tail(keys), m)

\* the body of  for m in markets  (src/oddcor.py:257-297), given m_name, outs
MarketBody(m_name, outs, hdr, book_name, minl) ==
    IF m_name = Raise THEN Err
    ELSE IF outs = Raise THEN Err
    ELSE OutsRows(outs.v, hdr, book_name, m_name, minl)

MarketRows(m, hdr, book_name, minl) ==
    MarketBody(pick_first(<<"key", "market", "name", "type">>, m, Str(<<>>)),
               MarketOuts(<<"selections", "outcomes", "bets", "options">>, m),
               hdr, book_name, minl)

RECURSIVE MarketsRows(_, _, _, _)
MarketsRows(ms, hdr, book_name, minl) ==
    IF ms = <<>> THEN Ok(<<>>)
    ELSE Cat(MarketRows(Head(ms), hdr, book_name, minl),
             MarketsRows(Tail(ms), hdr, book_name, minl))

\* any(k in src for k in keys)
RECURSIVE AnyIn(_, _)
AnyIn(keys, src) ==
    IF keys = <<>> THEN Bool(FALSE)
    ELSE OrElse(PyIn(Head(keys), src), AnyIn(Tail(keys), src))

\* markets of a book (src/oddcor.py:249-255), mk being  book["markets"]
\* guarded by  "markets" in book : that list, else the book itself when it
\* looks like a market, else nothing
MarketsOf(mk, looks, book) ==
    IF mk = Raise THEN Raise
    ELSE IF mk # Absent /\ mk.t = "list" THEN mk
    ELSE IF looks = Raise THEN Raise
    ELSE IF looks.v THEN List(<<book>>)
    ELSE List(<<>>)

BookMarkets(book) ==
    MarketsOf(Lookup("markets", book),
              AnyIn(<<"key", "market", "name", "type">>, book), book)

\* the body of  for book in candidates  (src/oddcor.py:247-297), given
\* book_name and markets
BookBody(book_name, markets, hdr, minl) ==
    IF book_name = Raise THEN Err
    ELSE IF markets = Raise THEN Err
    ELSE MarketsRows(markets.v, hdr, book_name, minl)

BookRows(book, hdr, minl) ==
    BookBody(pick_first(<<"book", "bookmaker", "title", "name">>, book,
                        Str(<<>>)),
             BookMarkets(book), hdr, minl)

RECURSIVE BooksRows(_, _, _)
BooksRows(books, hdr, minl) ==
    IF books = <<>> THEN Ok(<<>>)
    ELSE Cat(BookRows(Head(books), hdr, minl),
             BooksRows(Tail(books), hdr, minl))

\* home, away, league, match_id of a match (src/oddcor.py:237-240)
Header(match) ==
    [home |-> pick_first(<<"homeTeam", "home_team", "home">>, match,
                         Str(<<>>)),
     away |-> pick_first(<<"awayTeam", "away_team", "away">>, match,
                         Str(<<>>)),
     league |-> pick_first(<<"league", "competition", "tournament">>, match,
                           Str(<<>>)),
     match_id |-> pick_first(<<"id", "matchId", "fixtureId", "eventId">>,
                             match, Str(<<>>))]

\* extract_corner_rows from line 246 on, hdr being the four values above
ExtractBody(hdr, odds_block, minl) ==
    IF Raise \in {hdr.home, hdr.away, hdr.league, hdr.match_id} THEN Err
    ELSE BooksRows(IF odds_block.t = "list" THEN odds_block.v ELSE <<>>,
                   hdr, minl)

\* extract_corner_rows(match, odds_block, min_line)
extract_corner_rows(match, odds_block, minl) ==
    ExtractBody(Header(match), odds_block, minl)

-----------------------------------------------------------------------------
\* Data: the demo constants of the page and the inputs the model draws

\* the string literals of the data below
T == [ over20 |-> <<"O","v","e","r"," ","2",".","0">>,
       under20 |-> <<"U","n","d","e","r"," ","2",".","0">>,
       barca25 |-> <<"B","a","r","c","e","l","o","n","a"," ","O","v","e","r"," ","2",".","5">>,
       CORNERS9 |-> <<"C","O","R","N","E","R","S"," ","9">>,
       Home |-> <<"H","o","m","e">>,
       under105 |-> <<"U","n","d","e","r"," ","1","0",".","5">>,
       kick |-> <<"c","o","r","n","e","r"," ","k","i","c","k">>,
       s19 |-> <<"1",".","9">>,
       total_corners_home |-> <<"t","o","t","a","l","_","c","o","r","n","e","r","s","_","h","o","m","e">>,
       corners_team_home |-> <<"c","o","r","n","e","r","s","_","t","e","a","m","_","h","o","m","e">>,
       Goals |-> <<"G","o","a","l","s">>,
       TotalCorners |-> <<"T","o","t","a","l"," ","C","o","r","n","e","r","s">>,
       demo_book |-> <<"d","e","m","o","-","b","o","o","k">>,
       demo001 |-> <<"d","e","m","o","-","0","0","1">>,
       kickoff |-> <<"2","0","2","5","-","1","1","-","0","5","T","1","8",":","0","0",":","0","0","Z">>,
       Barcelona |-> <<"B","a","r","c","e","l","o","n","a">>,
       RealMadrid |-> <<"R","e","a","l"," ","M","a","d","r","i","d">>,
       LaLiga |-> <<"L","a","L","i","g","a">>,
       bet365 |-> <<"b","e","t","3","6","5">>,
       Premier |-> <<"P","r","e","m","i","e","r">>,
       Arsenal |-> <<"A","r","s","e","n","a","l">>,
       Chelsea |-> <<"C","h","e","l","s","e","a">>,
       m2 |-> <<"m","2">>,
       Liga |-> <<"L","i","g","a">>,
       Real |-> <<"R","e","a","l">>,
       apikey |-> <<"k","e","y">>,
       custompath |-> <<" ","/","b","e","t","3","6","5","/","l","i","v","e","/"," ">>,
       demo |-> <<"(","d","e","m","o",")">> ]

\* DEMO_MATCHES
DEMO_MATCHES ==
    List(<< Dict(("id" :> Str(T.demo001)) @@ ("startTime" :> Str(T.kickoff))
                 @@ ("homeTeam" :> Str(T.Barcelona))
                 @@ ("awayTeam" :> Str(T.RealMadrid))
                 @@ ("league" :> Str(T.LaLiga))) >>)

\* {"name": n, "odds": p}
Sel(n, p) == Dict(("name" :> n) @@ ("odds" :> p))

\* {"name": n, "selections": outs}
Mkt(n, outs) == Dict(("name" :> n) @@ ("selections" :> List(outs)))

\* {"book": b, "markets": ms}
Book(b, ms) == Dict(("book" :> b) @@ ("markets" :> List(ms)))

\* DEMO_ODDS
DEMO_ODDS ==
    List(<< Book(Str(T.demo_book),
                 << Mkt(Str(T.total_corners_home),
                        << Sel(Str(T.over20), Flt(190)),
                           Sel(Str(T.under20), Flt(180)) >>),
                    Mkt(Str(T.corners_team_home),
                        << Sel(Str(T.barca25), Flt(205)) >>) >>) >>)

-----------------------------------------------------------------------------
\* Endpoint selection (src/oddcor.py:35-50, 101-146)

\* str.strip(c) for one character c
RECURSIVE StripChar(_, _)
StripChar(s, c) ==
    IF s # <<>> /\ Head(s) = c THEN StripChar(Tail(s), c)
    ELSE IF s # <<>> /\ s[Len(s)] = c
         THEN StripChar(SubSeq(s, 1, Len(s) - 1), c)
    ELSE s

\* str.strip() and str.strip("/")
Strip(s) == StripChar(s, " ")
StripSlash(s) == StripChar(s, "/")

\* what follows {provider} in the ten routes of the preset list, which are
\* the ten routes compose_candidates builds, in the same order
PresetSuffixes ==
    << <<"/","u","p","c","o","m","i","n","g">>,
       <<"/","i","n","p","l","a","y">>,
       <<"/","p","r","e","m","a","t","c","h">>,
       <<"/","f","i","x","t","u","r","e","s">>,
       <<"/","e","v","e","n","t","s">>,
       <<"/","l","i","v","e">>,
       <<"/","l","i","v","e","/","i","n","p","l","a","y">>,
       <<"/","l","i","v","e","/","u","p","c","o","m","i","n","g">>,
       <<"/","p","r","e","-","m","a","t","c","h">>,
       <<"/","o","d","d","s">> >>

\* compose_candidates()
compose_candidates ==
    [i \in 1..Len(PresetSuffixes) |->
        StripSlash(Strip(provider)) \o PresetSuffixes[i]]

\* (path, [path] if path else [])
PathAndProbe(path) ==
    [path |-> path, to_probe |-> IF path # <<>> THEN <<path>> ELSE <<>>]

\* pick_endpoint_path(): (chosen path, paths to probe)
pick_endpoint_path ==
    IF endpoint_mode = "Ruta personalizada"
    THEN PathAndProbe(StripSlash(Strip(custom_path)))
    ELSE IF endpoint_mode = "Elegir de lista"
    THEN [path |-> StripSlash(Strip(provider \o preset_endpoint)),
          to_probe |-> << StripSlash(Strip(provider \o preset_endpoint)) >>]
    ELSE [path |-> <<>>, to_probe |-> compose_candidates]

\* a need_key that never stops the script
need_key_skipped == FALSE

\* need_key(): TRUE when it stops the script with the warning
need_key == ~demo_mode /\ rapidapi_key = <<>>

-----------------------------------------------------------------------------
\* Matches and their odds (src/oddcor.py:165-212)

\* the first d.get(k) that is a list, else Absent (d a dict)
RECURSIVE FirstListKey(_, _)
FirstListKey(keys, d) ==
    IF keys = <<>> THEN Absent
    ELSE IF PyGet(d, Head(keys)).t = "list" THEN PyGet(d, Head(keys))
    ELSE FirstListKey(Tail(keys), d)

\* normalize_matches on a dict, l being its first list among the five keys
NormDict(l, data) ==
    IF l # Absent THEN l.v
    ELSE IF /\ AnyIn(<<"homeTeam", "home_team", "home">>, data).v
            /\ AnyIn(<<"awayTeam", "away_team", "away">>, data).v
    THEN <<data>>
    ELSE <<>>

\* normalize_matches(data): a sequence of matches
normalize_matches(data) ==
    IF data.t = "list" THEN data.v
    ELSE IF data.t = "dict"
    THEN NormDict(FirstListKey(<<"matches", "events", "fixtures", "data",
                                 "result">>, data), data)
    ELSE <<>>

\* return [] when no key holds a list
OrEmpty(l) == IF l # Absent THEN l ELSE List(<<>>)

\* guess_odds_block(match): the first of odds/markets/bookmakers that is a
\* list, else []; Raise when match has no .get
guess_odds_block(match) ==
    IF match.t # "dict" THEN Raise
    ELSE OrEmpty(FirstListKey(<<"odds", "markets", "bookmakers">>, match))

\* a.get(k1) or a.get(k2) or ...  on a dict
RECURSIVE GetOr(_, _)
GetOr(keys, d) ==
    IF Len(keys) = 1 THEN PyGet(d, Head(keys))
    ELSE IF Truthy(PyGet(d, Head(keys))) THEN PyGet(d, Head(keys))
    ELSE GetOr(Tail(keys), d)

\* try_fetch_odds_by_id: the match id it reads
MatchId(match) == GetOr(<<"id", "matchId", "fixtureId", "eventId">>, match)

\* the three routes for an id, base being the stripped provider
IdPaths(base, id) ==
    << base \o <<"/","o","d","d","s","/">> \o id,
       base \o <<"/","p","r","e","m","a","t","c","h","/","o","d","d","s","/">>
            \o id,
       base \o <<"/","l","i","v","e","/","o","d","d","s","/">> \o id >>

\* try_fetch_odds_by_id: id_paths
id_paths(match) == IdPaths(StripSlash(Strip(provider)), to_str(MatchId(match)))

\* try_fetch_odds_by_id: what a 200 response with JSON body j returns
\* (Absent: nothing, the loop goes on to the next path)
OddsOfBody(j) ==
    IF j.t = "list" THEN j
    ELSE IF j.t = "dict"
    THEN FirstListKey(<<"odds", "markets", "bookmakers", "data", "result">>, j)
    ELSE Absent

-----------------------------------------------------------------------------
\* The search action (src/oddcor.py:301-385)

DEFAULT_HOST == <<"f","o","o","t","b","a","l","l","-","b","e","t","t","i","n",
                  "g","-","o","d","d","s","1",".","p",".","r","a","p","i","d",
                  "a","p","i",".","c","o","m">>

\* the URL of a GET: f"https://{rapidapi_host}/{path}"
Url(path) == <<"h","t","t","p","s",":","/","/">> \o DEFAULT_HOST \o <<"/">>
             \o path

\* x or ""
OrEmptyStr(x) == IF Truthy(x) THEN x ELSE Str(<<>>)

\* to_str(m.get(k1) or m.get(k2) or ... or "").lower()
FieldLower(keys, m) == LowerStr(to_str(OrEmptyStr(GetOr(keys, m))))

\* the league filter on one match (src/oddcor.py:331)
LeagueKeeps(m) ==
    IsSubstr(LowerStr(league_filter), FieldLower(<<"league", "competition">>, m))

\* t_contains (src/oddcor.py:333-336)
t_contains(m) ==
    \/ IsSubstr(LowerStr(team_filter),
                FieldLower(<<"homeTeam", "home_team", "home">>, m))
    \/ IsSubstr(LowerStr(team_filter),
                FieldLower(<<"awayTeam", "away_team", "away">>, m))

\* [m for m in ms if ...] for the league filter or the team filter
RECURSIVE KeepDicts(_, _)
KeepDicts(ms, league) ==
    IF ms = <<>> THEN <<>>
    ELSE (IF (IF league THEN LeagueKeeps(Head(ms)) ELSE t_contains(Head(ms)))
          THEN <<Head(ms)>> ELSE <<>>) \o KeepDicts(Tail(ms), league)

\* one filter when it is active: err when a match has no .get
FilterBy(ms, active, league) ==
    IF ~active THEN [err |-> FALSE, ms |-> ms]
    ELSE IF \E i \in 1..Len(ms) : ms[i].t # "dict"
    THEN [err |-> TRUE, ms |-> <<>>]
    ELSE [err |-> FALSE, ms |-> KeepDicts(ms, league)]

\* the team filter after the league filter gave f
TeamFilter(f) ==
    IF f.err THEN f ELSE FilterBy(f.ms, team_filter # <<>>, FALSE)

\* the two filters (src/oddcor.py:330-337)
FilterMatches(ms) == TeamFilter(FilterBy(ms, league_filter # <<>>, TRUE))

\* where the script stands after a stretch without HTTP
Stand(p, ms, mi, ii, rows, msg, wr, sh) ==
    [pc |-> p, matches |-> ms, match_idx |-> mi, id_idx |-> ii,
     all_rows |-> rows, message |-> msg, written |-> wr, shown |-> sh]

\* the end of the search (src/oddcor.py:358-375): the warning, or the table
Finish(ms, rows) ==
    IF rows = <<>>
    THEN Stand("done", ms, Len(ms) + 1, 0, rows, "no_corners_warning",
               Len(ms), <<>>)
    ELSE Stand("done", ms, Len(ms) + 1, 0, rows, "table", Len(ms), rows)

\* except Exception (src/oddcor.py:383-385) once the count was written
Failed(ms, mi, rows) ==
    Stand("error", ms, mi, 0, rows, "exception_error", Len(ms), <<>>)

\* the per-match loop (src/oddcor.py:345-356) from match idx on, with the
\* rows collected so far, up to the next HTTP request, the end or an
\* exception.  LoopBody is one turn given what guess_odds_block returned (or
\* DEMO_ODDS); AfterExtract is line 356 given what extract_corner_rows did.
RECURSIVE RunLoop(_, _, _)
RECURSIVE LoopBody(_, _, _, _)
RECURSIVE AfterExtract(_, _, _, _)
AfterExtract(r, ms, idx, rows) ==
    IF r.err THEN Failed(ms, idx, rows)
    ELSE RunLoop(ms, idx + 1, rows \o r.rows)

LoopBody(guessed, ms, idx, rows) ==
    IF guessed = Raise THEN Failed(ms, idx, rows)
    ELSE IF ~demo_mode /\ ~Truthy(guessed) /\ Truthy(MatchId(ms[idx]))
    THEN Stand("fetch_odds", ms, idx, 1, rows, "none", Len(ms), <<>>)
    ELSE AfterExtract(extract_corner_rows(ms[idx], guessed, min_line),
                      ms, idx, rows)

RunLoop(ms, idx, rows) ==
    IF idx > Len(ms) THEN Finish(ms, rows)
    ELSE LoopBody(IF demo_mode THEN DEMO_ODDS ELSE guess_odds_block(ms[idx]),
                  ms, idx, rows)

\* the loop after try_fetch_odds_by_id returned odds_block for match idx
ResumeLoop(ms, idx, rows, odds_block) ==
    AfterExtract(extract_corner_rows(ms[idx], odds_block, min_line),
                 ms, idx, rows)

\* lines 339-343 on the filtered matches f
Filtered(f) ==
    IF f.err
    THEN Stand("error", <<>>, 0, 0, <<>>, "exception_error", -1, <<>>)
    ELSE RunLoop(f.ms, 1, <<>>)

\* from the listing payload on (src/oddcor.py:327-343)
AfterListing(raw_payload) ==
    Filtered(FilterMatches(normalize_matches(raw_payload)))

\* the script takes the stand st
Take(st) ==
    /\ pc' = st.pc
    /\ matches' = st.matches
    /\ match_idx' = st.match_idx
    /\ id_idx' = st.id_idx
    /\ all_rows' = st.all_rows
    /\ message' = st.message
    /\ written' = st.written
    /\ shown' = st.shown

\* the script ends on an exception raised before the listing was read
Abort(msg) ==
    Take(Stand("error", <<>>, 0, 0, <<>>, msg, -1, <<>>))

-----------------------------------------------------------------------------
\* Inputs of a search: the sidebar, the listing payloads and the answers of
\* the server

\* Longest list of matches of a drawn listing
MaxMatches == 2

\* embedded odds whose feed repeats a selection
RepeatedBlock ==
    List(<< Book(Str(T.demo_book),
                 << Mkt(Str(T.total_corners_home),
                        << Sel(Str(T.over20), Flt(190)),
                           Sel(Str(T.over20), Flt(210)) >>) >>) >>)

\* Matches a listing can hold: the demo match (an id, no odds), one with
\* embedded odds, one with an empty "odds" beside a filled "markets", one
\* with neither id nor odds, one whose odds list holds a number, and an
\* entry that is not an object
XMatches ==
    { DEMO_MATCHES.v[1],
      Dict(("matchId" :> Str(T.m2)) @@ ("home" :> Str(T.Arsenal))
           @@ ("away" :> Str(T.Chelsea)) @@ ("competition" :> Str(T.Premier))
           @@ ("odds" :> RepeatedBlock)),
      Dict(("id" :> IntV(7)) @@ ("homeTeam" :> Str(T.Arsenal))
           @@ ("awayTeam" :> Str(T.RealMadrid)) @@ ("league" :> Str(T.LaLiga))
           @@ ("odds" :> List(<<>>)) @@ ("markets" :> DEMO_ODDS)),
      Dict(("homeTeam" :> Str(T.Arsenal)) @@ ("awayTeam" :> Str(T.Chelsea))),
      Dict(("id" :> Str(T.m2)) @@ ("homeTeam" :> Str(T.Barcelona))
           @@ ("awayTeam" :> Str(T.Chelsea)) @@ ("league" :> Str(T.LaLiga))
           @@ ("bookmakers" :> List(<< IntV(5) >>))),
      IntV(7) }

XMatchLists == UNION { [1..n -> XMatches] : n \in 0..MaxMatches }

\* a body that r.json() cannot parse
NotJson == [t |-> "notjson"]

\* Bodies of a listing response: a list, a dict holding the list, a lone
\* match, JSON without matches, or no JSON
ListingBodies ==
    { List(ms) : ms \in XMatchLists }
    \cup { Dict(("matches" :> Null) @@ ("events" :> List(<<m>>))) :
               m \in XMatches }
    \cup { DEMO_MATCHES.v[1], IntV(0), NotJson }

\* Bodies the probes of Autodetectar are answered with: the listings of at
\* most one match (longer listings arrive through the direct GET, which
\* runs the same code on them)
ProbeBodies ==
    { b \in ListingBodies : b.t = "list" => Len(b.v) <= 1 }

\* Bodies of a per-id odds response
OddsBodies ==
    { DEMO_ODDS,
      Dict("data" :> List(<< Book(Str(T.demo_book),
                                  << Mkt(Str(T.Goals),
                                         << Sel(Str(T.Home), Flt(150)) >>) >>)
                          >>)),
      Dict("name" :> Str(T.Goals)),
      List(<<>>),
      List(<< IntV(5) >>),
      NotJson }

\* Status codes the server answers with; 0 stands for requests.get raising
\* (no response: timeout, connection error)
Statuses == { 0, 200, 202, 404, 429, 503 }

\* the body of a response whose body the code does not read
Unread == [t |-> "unread"]

\* Answers to a GET whose body is read when the status is in readable
Responses(readable, bodies) ==
    { [status |-> s, body |-> Unread] : s \in Statuses \ readable }
    \cup { [status |-> s, body |-> b] : s \in readable, b \in bodies }

\* the presets the model selects among
XPresets == { PresetSuffixes[1], PresetSuffixes[7] }

\* (league_filter, team_filter) pairs
XFilters == { <<<<>>, <<>>>>, <<T.Liga, <<>>>>, <<<<>>, T.Real>> }

\* no request was issued
NoHttp ==
    /\ requested = FALSE /\ req_by = "none" /\ requests = <<>>
    /\ last_status = 0 /\ last_body = "unread"

\* a GET of url by call "by" (first: its first request) is answered by resp
Get(by, first, url, resp) ==
    /\ requested' = TRUE
    /\ req_by' = by
    /\ requests' = IF first THEN <<url>> ELSE Append(requests, url)
    /\ last_status' = resp.status
    /\ last_body' = IF resp.body = Unread THEN "unread"
                    ELSE IF resp.body = NotJson THEN "notjson"
                    ELSE "json"

NoExtract ==
    /\ x_match = Null /\ x_block = Null /\ x_result = Ok(<<>>)

\* The page as rendered before the button is pressed.  Inputs the chosen
\* endpoint mode does not read stay at their defaults.
Init ==
    /\ demo_mode \in BOOLEAN
    /\ rapidapi_key \in { <<>>, T.apikey }
    /\ provider = T.bet365
    /\ endpoint_mode \in { "Autodetectar", "Elegir de lista",
                           "Ruta personalizada" }
    /\ preset_endpoint \in XPresets
    /\ endpoint_mode # "Elegir de lista" => preset_endpoint = PresetSuffixes[1]
    /\ custom_path \in { <<>>, T.custompath }
    /\ endpoint_mode # "Ruta personalizada" => custom_path = <<>>
    /\ \E f \in XFilters : league_filter = f[1] /\ team_filter = f[2]
    /\ min_line = 200  \* the default of the number_input, 2.0
    /\ pc = "idle"
    /\ to_probe = <<>> /\ probe_idx = 0 /\ path_used = <<>>
    /\ matches = <<>> /\ match_idx = 0 /\ id_idx = 0 /\ all_rows = <<>>
    /\ message = "none" /\ written = -1 /\ shown = <<>>
    /\ NoHttp
    /\ NoExtract

\* if btn_search: ... up to the first HTTP request (src/oddcor.py:301-325)
ClickSearch ==
    /\ pc = "idle"
    /\ IF demo_mode
       THEN /\ path_used' = T.demo
            /\ \E st \in { AfterListing(DEMO_MATCHES) } : Take(st)
            /\ UNCHANGED <<to_probe, probe_idx>>
       ELSE IF need_key
       THEN /\ Take(Stand("stopped", <<>>, 0, 0, <<>>, "need_key_warning",
                          -1, <<>>))
            /\ UNCHANGED <<to_probe, probe_idx, path_used>>
       ELSE IF endpoint_mode = "Autodetectar"
       THEN /\ to_probe' = pick_endpoint_path.to_probe
            /\ probe_idx' = 1
            /\ Take(Stand("probe", <<>>, 0, 0, <<>>, "none", -1, <<>>))
            /\ UNCHANGED path_used
       ELSE /\ path_used' = pick_endpoint_path.path
            /\ to_probe' = pick_endpoint_path.to_probe
            /\ UNCHANGED probe_idx
            /\ IF pick_endpoint_path.path = <<>>
               THEN Abort("empty_custom_path_error")
               ELSE Take(Stand("get", <<>>, 0, 0, <<>>, "none", -1, <<>>))
    /\ UNCHANGED <<inputs, http, x_match, x_block, x_result>>

\* a probe that takes any 200 response, parsed or not
ProbeAcceptsStatus(resp) == resp.status = 200

\* probe_first_working_path: the response makes it return (status 200 and
\* r.json() does not raise)
ProbeAccepts(resp) == resp.status = 200 /\ resp.body # NotJson

\* one turn of the loop of probe_first_working_path (src/oddcor.py:153-163)
\* and, when it returns, the search action from line 311 on
ProbeRequest ==
    /\ pc = "probe"
    /\ \E resp \in Responses({200}, ProbeBodies) :
        /\ Get("probe", probe_idx = 1, Url(to_probe[probe_idx]), resp)
        /\ IF ProbeAccepts(resp)
           THEN /\ path_used' = to_probe[probe_idx]
                /\ UNCHANGED probe_idx
                /\ IF to_probe[probe_idx] = <<>>
                   THEN Abort("no_endpoint_error")
                   ELSE \E st \in { AfterListing(resp.body) } : Take(st)
           ELSE IF probe_idx < Len(to_probe)
           THEN /\ probe_idx' = probe_idx + 1
                /\ UNCHANGED <<path_used, pc, matches, match_idx, id_idx,
                               all_rows, message, written, shown>>
           ELSE /\ UNCHANGED <<path_used, probe_idx>>
                /\ Abort("no_endpoint_error")
    /\ UNCHANGED <<inputs, to_probe, x_match, x_block, x_result>>

\* the GET of the chosen or written path (src/oddcor.py:322-325)
DirectGet ==
    /\ pc = "get"
    /\ \E resp \in Responses({200, 202}, ListingBodies) :
        /\ Get("get", TRUE, Url(path_used), resp)
        /\ IF resp.status = 0 THEN Abort("exception_error")
           ELSE IF resp.status >= 400 THEN Abort("http_error")
           ELSE IF resp.body = NotJson THEN Abort("exception_error")
           ELSE \E st \in { AfterListing(resp.body) } : Take(st)
    /\ UNCHANGED <<inputs, to_probe, probe_idx, path_used, x_match, x_block,
                   x_result>>

\* try_fetch_odds_by_id after the GET of a route answered: it returns got, or
\* goes on to the next route, or returns [] after the last
OddsTurn(got, last) ==
    IF got # Absent
    THEN \E st \in { ResumeLoop(matches, match_idx, all_rows, got) } : Take(st)
    ELSE IF ~last
    THEN /\ id_idx' = id_idx + 1
         /\ UNCHANGED <<pc, matches, match_idx, all_rows, message, written,
                        shown>>
    ELSE \E st \in { ResumeLoop(matches, match_idx, all_rows, List(<<>>)) } :
             Take(st)

\* one turn of the loop of try_fetch_odds_by_id (src/oddcor.py:199-212) and,
\* when it returns, the per-match loop from line 355 on
FetchOddsRequest ==
    /\ pc = "fetch_odds"
    /\ \E resp \in Responses({200}, OddsBodies) :
        /\ Get("odds", id_idx = 1, Url(id_paths(matches[match_idx])[id_idx]),
               resp)
        /\ OddsTurn(IF resp.status = 200 /\ resp.body # NotJson
                    THEN OddsOfBody(resp.body) ELSE Absent,
                    id_idx = Len(id_paths(matches[match_idx])))
    /\ UNCHANGED <<inputs, to_probe, probe_idx, path_used, x_match, x_block,
                   x_result>>

Next == ClickSearch \/ ProbeRequest \/ DirectGet \/ FetchOddsRequest

Spec == Init /\ [][Next]_vars

-----------------------------------------------------------------------------
\* extract_corner_rows on drawn inputs

\* Longest list of outcomes of a drawn market
MaxOuts == 2

\* Outcomes a feed can send: priced, priced under another key or as an int,
\* with a string / null / non-finite / missing price, with a numeric name,
\* a repeated selection with another price, and one that is not an object.
XOutcomes ==
    { Sel(Str(T.over20), Flt(190)),
      Sel(Str(T.over20), Flt(210)),
      Dict(("name" :> Str(T.CORNERS9)) @@ ("price" :> IntV(2))),
      Sel(Str(T.Home), Str(T.s19)),
      Dict("label" :> Str(T.under105)),
      Sel(IntV(3), NaN),
      Sel(Str(T.kick), Null),
      IntV(5) }

\* Market names: with "corner" in lower case, in mixed case, without it, and
\* a numeric market key
XMarketNames ==
    { Str(T.total_corners_home), Str(T.TotalCorners), Str(T.Goals), IntV(69) }

XOutLists == UNION { [1..n -> XOutcomes] : n \in 0..MaxOuts }

\* One-book blocks in both shapes the code accepts (a book with "markets",
\* a book that is itself the market), the demo block, and malformed blocks
XBlocks ==
    { List(<< Book(Str(T.demo_book), << Mkt(n, outs) >>) >>) :
          n \in XMarketNames, outs \in XOutLists }
    \cup { List(<< Mkt(n, outs) >>) : n \in XMarketNames, outs \in XOutLists }
    \cup { DEMO_ODDS, List(<< IntV(5) >>), List(<< List(<<>>) >>),
           List(<< Book(Str(T.demo_book), << List(<<>>) >>) >>) }

\* min_line (hundredths): number_input(0.0, 15.0, step=0.5, value=2.0)
XMinLines == { 0, 200, 250, 1050 }

NoSearch ==
    /\ demo_mode = FALSE /\ rapidapi_key = <<>> /\ custom_path = <<>>
    /\ provider = T.bet365 /\ preset_endpoint = PresetSuffixes[1]
    /\ endpoint_mode = "Autodetectar" /\ written = -1
    /\ league_filter = <<>> /\ team_filter = <<>>
    /\ to_probe = <<>> /\ probe_idx = 0 /\ path_used = <<>>
    /\ matches = <<>> /\ match_idx = 0 /\ id_idx = 0 /\ all_rows = <<>>
    /\ message = "none" /\ shown = <<>>
    /\ NoHttp

InitExtract ==
    /\ NoSearch
    /\ pc = "x_ready"
    /\ x_match = DEMO_MATCHES.v[1]
    /\ x_block \in XBlocks
    /\ min_line \in XMinLines
    /\ x_result = Ok(<<>>)

\* rows = extract_corner_rows(match, odds_block, min_line=min_line)
Extract ==
    /\ pc = "x_ready"
    /\ x_result' = extract_corner_rows(x_match, x_block, min_line)
    /\ pc' = "x_done"
    /\ UNCHANGED <<inputs, to_probe, probe_idx, path_used, matches,
                   match_idx, id_idx, all_rows, message, written, shown,
                   http, x_match, x_block>>

NextExtract == Extract

SpecExtract == InitExtract /\ [][NextExtract]_vars

-----------------------------------------------------------------------------
\* Properties of extract_corner_rows, checked under SpecExtract

\* the rows of the finished call
XRows == x_result.rows

\* the call returned: it did not raise
XReturned == pc = "x_done" /\ ~x_result.err

\* a name that holds "corner" in some letter case
MentionsCorner(x) == x.t = "str" /\ IsSubstr(CORNER, LowerStr(x.v))

\* the block holds one market, inside a book or as the book itself
XOneMarket ==
    /\ x_block.t = "list" /\ Len(x_block.v) = 1 /\ x_block.v[1].t = "dict"
    /\ \/ "selections" \in DOMAIN x_block.v[1].v
       \/ /\ "markets" \in DOMAIN x_block.v[1].v
          /\ Len(x_block.v[1].v["markets"].v) = 1
          /\ x_block.v[1].v["markets"].v[1].t = "dict"

\* that market, its name and its outcomes
XMarket ==
    IF "selections" \in DOMAIN x_block.v[1].v THEN x_block.v[1]
    ELSE x_block.v[1].v["markets"].v[1]

XMarketName == XMarket.v["name"]

XOuts == XMarket.v["selections"].v

\* the name an outcome of the drawn feeds carries
XNameOf(o) == IF "name" \in DOMAIN o.v THEN o.v["name"] ELSE o.v["label"]

Names(os) == [i \in 1..Len(os) |-> XNameOf(os[i])]

Selections(rows) == [i \in 1..Len(rows) |-> rows[i].selection]

\* C1: every row extract_corner_rows emits carries a price that is a finite
\* number; an outcome whose price is missing, null, a string or not a number
\* is dropped.  The code appends the row with odds = None (or NaN) instead.
C1_PriceIsNumber ==
    pc = "x_done" => \A i \in 1..Len(XRows) : XRows[i].odds.t = "float"

\* the market test as the claim words it: "corner" in either name
C2_Kept(o) == MentionsCorner(XMarketName) \/ MentionsCorner(XNameOf(o))

C9_Line(nm) ==
    CASE nm = Str(T.over20) -> 200
      [] nm = Str(T.CORNERS9) -> 900
      [] nm = Str(T.under105) -> 1050
      [] nm = IntV(3) -> 300
      [] OTHER -> -1

\* a corner outcome the minimum-line rule lets through
C9_Kept(o) ==
    /\ C2_Kept(o)
    /\ C9_Line(XNameOf(o)) = -1 \/ C9_Line(XNameOf(o)) >= min_line

\* every row of a call with a higher min_line is a row of this call
C9_NoRowAdded(higher) ==
    /\ ~higher.err
    /\ \A i \in 1..Len(higher.rows) :
           \E j \in 1..Len(XRows) : XRows[j] = higher.rows[i]

\* C9: a corner outcome is emitted if and only if its selection name holds
\* no number or its first number is >= min_line; so a call with a higher
\* min_line on the same input never returns a row this call does not.
C9_MinLine ==
    XReturned =>
        /\ XOneMarket =>
               Selections(XRows) = Names(SelectSeq(XOuts, C9_Kept))
        /\ \A ml \in XMinLines :
               ml >= min_line =>
                   C9_NoRowAdded(extract_corner_rows(x_match, x_block, ml))

\* C9 witness: with min_line = 2.5, "Over 2.0" is dropped and "CORNERS 9"
\* of the same corner market is emitted
C9_BelowLineDropped ==
    /\ XReturned /\ XOneMarket /\ min_line = 250
    /\ MentionsCorner(XMarketName)
    /\ Names(XOuts) = << Str(T.over20), Str(T.CORNERS9) >>
    /\ Selections(XRows) = << Str(T.CORNERS9) >>

-----------------------------------------------------------------------------
\* Properties of the search action, checked under Spec.  Every state of
\* Spec follows the code's reaction to the last response it received.

\* the ten routes of Autodetectar for provider bet365, in the claimed order
C3_Names ==
    << <<"u","p","c","o","m","i","n","g">>,
       <<"i","n","p","l","a","y">>,
       <<"p","r","e","m","a","t","c","h">>,
       <<"f","i","x","t","u","r","e","s">>,
       <<"e","v","e","n","t","s">>,
       <<"l","i","v","e">>,
       <<"l","i","v","e","/","i","n","p","l","a","y">>,
       <<"l","i","v","e","/","u","p","c","o","m","i","n","g">>,
       <<"p","r","e","-","m","a","t","c","h">>,
       <<"o","d","d","s">> >>

C3_Order == [i \in 1..Len(C3_Names) |-> T.bet365 \o <<"/">> \o C3_Names[i]]

\* the URLs of the first n routes
C3_ProbeLog(n) == [i \in 1..n |-> Url(C3_Order[i])]

\* the last response was HTTP 200 with a body that parsed as JSON
C3_Qualifies == last_status = 200 /\ last_body = "json"

\* C3: in Autodetectar mode the candidate routes are requested in the fixed
\* order; the loop goes on only after a response that is not 200 + JSON,
\* returns the route of the first response that is, and requests no
\* candidate after it; when none qualifies all ten were requested, the path
\* is empty and the search ends with the no-endpoint error, no match
\* processed.
C3_ProbeOrder ==
    /\ pc = "probe" =>
           /\ to_probe = C3_Order
           /\ probe_idx \in 1..Len(C3_Order)
           /\ IF probe_idx = 1 THEN ~requested /\ requests = <<>>
              ELSE /\ req_by = "probe"
                   /\ requests = C3_ProbeLog(probe_idx - 1)
                   /\ ~C3_Qualifies
           /\ path_used = <<>> /\ matches = <<>> /\ written = -1
    /\ (req_by = "probe" /\ pc # "probe") =>
           /\ Len(requests) \in 1..Len(C3_Order)
           /\ requests = C3_ProbeLog(Len(requests))
           /\ IF C3_Qualifies
              THEN /\ path_used = C3_Order[Len(requests)]
                   /\ message # "no_endpoint_error"
              ELSE /\ Len(requests) = Len(C3_Order)
                   /\ path_used = <<>>
                   /\ pc = "error" /\ message = "no_endpoint_error"
                   /\ matches = <<>> /\ match_idx = 0 /\ all_rows = <<>>
                   /\ written = -1 /\ shown = <<>>
    /\ message = "no_endpoint_error" => req_by = "probe" /\ ~C3_Qualifies
    /\ endpoint_mode = "Autodetectar" =>
           /\ req_by # "get"
           /\ req_by = "odds" =>
                  /\ \E k \in 1..Len(C3_Order) : path_used = C3_Order[k]
                  /\ \A i \in 1..Len(requests), k \in 1..Len(C3_Order) :
                         requests[i] # Url(C3_Order[k])

\* C3 witness: the first two routes failed, the third answered 200 with
\* JSON and the search ended with a table, three probes in all
C3_ThirdRouteWorks ==
    /\ req_by = "probe" /\ pc = "done" /\ message = "table"
    /\ Len(requests) = 3 /\ path_used = C3_Order[3]

\* the statuses the claim calls for a retry on
C4_Transient == { 429, 500, 502, 503, 504 }

\* how often the call in progress requested url
Occurrences(url) ==
    Cardinality({ i \in 1..Len(requests) : requests[i] = url })

\* C4: a GET answered with 429, 500, 502, 503 or 504 is issued again to the
\* same URL before it counts as failed: once the code has reacted to such
\* an answer, its URL was requested at least twice.  The code requests
\* every URL once.
C4_TransientRetried ==
    (requested /\ last_status \in C4_Transient) =>
        Occurrences(requests[Len(requests)]) >= 2

\* C5: a match whose odds cannot be obtained or normalized contributes no
\* rows and the loop goes on: once the per-match loop was reached (the
\* count of matches is written), the search does not end on an exception.
C5_FailedMatchSkipped == written >= 0 => pc # "error"

\* C6: a search that ends without rows names the stage that produced
\* nothing: when no match was left, the message is not the one shown by a
\* search that had a match and found no corner row.
C6_StageNamed ==
    (pc = "done" /\ matches = <<>>) =>
        message # Finish(<< DEMO_MATCHES.v[1] >>, <<>>).message

\* C7: with demo mode off and an empty key the search stops with the
\* warning before any request, in every endpoint mode; with demo mode on
\* it runs to its end without any request.
C7_NoRequestWithoutKey ==
    /\ (demo_mode \/ rapidapi_key = <<>>) =>
           /\ ~requested /\ requests = <<>>
           /\ pc \notin { "probe", "get", "fetch_odds" }
    /\ (~demo_mode /\ rapidapi_key = <<>> /\ pc # "idle") =>
           /\ pc = "stopped" /\ message = "need_key_warning"
           /\ written = -1 /\ shown = <<>>
    /\ (demo_mode /\ pc # "idle") => pc = "done" /\ path_used = T.demo

\* C7 witness: a written route, no key, no demo: stopped with no request
C7_StoppedForKey ==
    /\ pc = "stopped" /\ message = "need_key_warning"
    /\ endpoint_mode = "Ruta personalizada" /\ custom_path # <<>>
    /\ ~requested

\* what the claim keys a row by
C8_Key(r) == << r.match_id, r.book, r.market, r.selection >>

\* C8: the result of a search holds at most one row per (match id,
\* bookmaker, market, selection).  The code appends every outcome.
C8_OneRowPerSelection ==
    \A i, j \in 1..Len(shown) :
        C8_Key(shown[i]) = C8_Key(shown[j]) => i = j

\* a match that carries a non-empty list under odds, markets or bookmakers
C10_HasEmbeddedOdds(m) ==
    \E k \in { "odds", "markets", "bookmakers" } :
        k \in DOMAIN m.v /\ m.v[k].t = "list" /\ m.v[k].v # <<>>

\* C10: the per-id odds routes are requested only for a match that carries
\* no non-empty list under odds, markets or bookmakers.  The code asks for
\* them as soon as the first of the three keys that is a list is empty.
C10_FetchOnlyWithoutOdds ==
    pc = "fetch_odds" => ~C10_HasEmbeddedOdds(matches[match_idx])

====
